---- MODULE Spec2Model ----
(***************************************************************************)
(* Model of nd_intersects/nd_intersects.py: the spatial-join adapter       *)
(* do_sjoin, the group-by-and-fold of nd_intersects, and the call sequence *)
(* of demo() that shares one KEEP_COLUMNS list between the calls.          *)
(*                                                                         *)
(* Values.  A table cell is a sequence of one-character strings (a Python  *)
(* str), the one-token sequence Null (a missing cell, NaN/None), or a      *)
(* point geometry <<"POINT", d>>.  A table is a record                     *)
(*   [columns : sequence of column names, index : sequence of labels,      *)
(*    rows : sequence of rows, a row being a sequence of cells aligned     *)
(*    with columns].                                                       *)
(* Geometry is one-dimensional: a point is a coordinate, a polygon is a    *)
(* closed interval <<lo, hi>>; a point on an end of the interval is on the *)
(* polygon's boundary.                                                     *)
(***************************************************************************)
EXTENDS Integers, Sequences, FiniteSets, TLC

VARIABLES pnts, pgons, KEEP_COLUMNS, df3, igdf, ndgdf, refold, pc

vars == <<pnts, pgons, KEEP_COLUMNS, df3, igdf, ndgdf, refold, pc>>

(* ---------------------------------------------------------------- bounds *)
MaxPoints == 2
MaxPolys == 2

(* ------------------------------------------------------------ constants *)
PTID == "point_id"
PGID == "polygon_id"
GEOM == "geometry"
INDEX_RIGHT == "index_right"
SEP == "-"
FILLNA == <<"N", "a", "N">>
HOW == "left"

Null == <<"<NA>">>

\* the decimal digit of x in 0..9
Digit(x) == <<"0", "1", "2", "3", "4", "5", "6", "7", "8", "9">>[x + 1]
\* the coordinates a point of the model may lie at
PointCoords == {1, 2}
Point(x) == <<"POINT", Digit(x)>>
Coord(g) == CHOOSE x \in PointCoords : Point(x) = g

isna(c) == c = Null
IsGeom(c) == Len(c) > 0 /\ c[1] = "POINT"
IsStr(c) == ~isna(c) /\ ~IsGeom(c)

(* ------------------------------------------------------ Python str ops *)
\* code point of a character, the order Python compares str by
Ord(c) ==
  CASE c = "-" -> 45
    [] c = "A" -> 65
    [] c = "B" -> 66
    [] c = "N" -> 78
    [] c = "a" -> 97
    [] c = "b" -> 98
    [] OTHER -> 0

RECURSIVE StrLess(_, _)
StrLess(s, t) ==
  IF t = <<>> THEN FALSE
  ELSE IF s = <<>> THEN TRUE
  ELSE IF Ord(s[1]) # Ord(t[1]) THEN Ord(s[1]) < Ord(t[1])
  ELSE StrLess(Tail(s), Tail(t))

\* sep.join(items)
RECURSIVE join(_, _)
join(sep, items) ==
  IF items = <<>> THEN <<>>
  ELSE IF Len(items) = 1 THEN items[1]
  ELSE items[1] \o <<sep>> \o join(sep, Tail(items))

(* ------------------------------------------------------------ table ops *)
NoTable == [columns |-> <<>>, index |-> <<>>, rows |-> <<>>]
NoResult == [status |-> "none", table |-> NoTable]

ColPos(columns, name) == CHOOSE j \in 1..Len(columns) : columns[j] = name
HasCol(columns, name) == \E j \in 1..Len(columns) : columns[j] = name
Column(t, name) == [k \in 1..Len(t.rows) |-> t.rows[k][ColPos(t.columns, name)]]

\* Series.unique(): the distinct values in order of first occurrence
RECURSIVE unique(_)
unique(s) ==
  IF s = <<>> THEN <<>>
  ELSE LET u == unique(SubSeq(s, 1, Len(s) - 1))
           x == s[Len(s)]
       IN IF \E i \in 1..Len(u) : u[i] = x THEN u ELSE Append(u, x)

\* pnts.index: the default RangeIndex of the point collection
RangeIndex(df) == [k \in 1..Len(df) |-> k - 1]

(* ------------------------------------------- external: geopandas.sjoin *)
\* the binary predicate of a point against a polygon
Predicate(op, pt, pg) ==
  LET x == Coord(pt.geometry)
  IN  CASE op = "intersects" -> pg.geometry[1] <= x /\ x <= pg.geometry[2]
        [] op = "within" -> pg.geometry[1] < x /\ x < pg.geometry[2]
        [] OTHER -> FALSE

\* positions of the right rows matching left row i, in right order
Matches(df1, df2, op, i) ==
  SelectSeq([j \in 1..Len(df2) |-> j], LAMBDA j : Predicate(op, df1[i], df2[j]))

\* the joined rows of left row i: one per match; under a left join an
\* unmatched left row is kept once with null right-side cells
LeftRows(df1, df2, how, op, i) ==
  LET m == Matches(df1, df2, op, i)
      wide(j) == [idx |-> i - 1,
                  row |-> <<df1[i].point_id, df1[i].geometry,
                            <<Digit(j - 1)>>, df2[j].polygon_id>>]
  IN  IF m = <<>>
      THEN IF how = "left"
           THEN <<[idx |-> i - 1,
                   row |-> <<df1[i].point_id, df1[i].geometry, Null, Null>>]>>
           ELSE <<>>
      ELSE [k \in 1..Len(m) |-> wide(m[k])]

RECURSIVE JoinedUpTo(_, _, _, _, _)
JoinedUpTo(df1, df2, how, op, n) ==
  IF n = 0 THEN <<>>
  ELSE JoinedUpTo(df1, df2, how, op, n - 1) \o LeftRows(df1, df2, how, op, n)

sjoin(df1, df2, how, op) ==
  LET j == JoinedUpTo(df1, df2, how, op, Len(df1))
  IN  [columns |-> <<PTID, GEOM, INDEX_RIGHT, PGID>>,
       index |-> [k \in 1..Len(j) |-> j[k].idx],
       rows |-> [k \in 1..Len(j) |-> j[k].row]]

\* df[keep_columns]
Project(t, keep_columns) ==
  [columns |-> keep_columns,
   index |-> t.index,
   rows |-> [k \in 1..Len(t.rows) |->
               [j \in 1..Len(keep_columns) |->
                  t.rows[k][ColPos(t.columns, keep_columns[j])]]]]

(* -------------------------------------------------------------- do_sjoin *)
\* keep_columns += [df1.geometry.name], on the caller's list object
KeepGeometry(keep_columns) ==
  IF ~HasCol(keep_columns, GEOM) THEN keep_columns \o <<GEOM>> ELSE keep_columns

\* mutant: the null cells are left unfilled
FillNa_skipped(t, pgid, fillna) == t

\* df3.loc[(df3[pgid].isna()), pgid] = fillna
FillNa(t, pgid, fillna) ==
  [t EXCEPT !.rows =
     [k \in 1..Len(t.rows) |->
        [j \in 1..Len(t.columns) |->
           IF t.columns[j] = pgid /\ isna(t.rows[k][j])
           THEN fillna ELSE t.rows[k][j]]]]

\* returns the joined table and the caller's list as the call leaves it
do_sjoin(df1, df2, op, ptid, pgid, keep_columns, how, fillna) ==
  LET keep == KeepGeometry(keep_columns)
  IN  [keep_columns |-> keep,
       df3 |-> FillNa(Project(sjoin(df1, df2, how, op), keep), pgid, fillna)]

(* --------------------------------------------------------- nd_intersects *)
\* the sorted sequence of a finite set of str keys (groupby's sort=True)
RECURSIVE Sorted(_)
Sorted(S) ==
  IF S = {} THEN <<>>
  ELSE LET m == CHOOSE x \in S : \A y \in S \ {x} : StrLess(x, y)
       IN  <<m>> \o Sorted(S \ {m})

\* the groups of table t for the listed keys of key column col, each group
\* keeping its rows in the order of the table
Groups(t, col, keys) ==
  LET rowsOf(key) == SelectSeq([k \in 1..Len(t.rows) |-> k],
                               LAMBDA k : col[k] = key)
  IN  [i \in 1..Len(keys) |->
         [key |-> keys[i],
          group |-> [columns |-> t.columns,
                     index |-> [k \in 1..Len(rowsOf(keys[i])) |->
                                  t.index[rowsOf(keys[i])[k]]],
                     rows |-> [k \in 1..Len(rowsOf(keys[i])) |->
                                 t.rows[rowsOf(keys[i])[k]]]]]]

Values(col) == {col[k] : k \in 1..Len(col)}

\* mutant: the null key forms a group of its own
groupby_keepna(t, by) ==
  Groups(t, Column(t, by), Sorted(Values(Column(t, by))))

\* mutant: the rows are grouped by the polygon id instead of the key asked
groupby_wrongkey(t, by) ==
  Groups(t, Column(t, PGID), Sorted(Values(Column(t, PGID)) \ {Null}))

\* igdf.groupby(ptid): the groups in ascending key order (sort=True), the
\* rows with a null key left out
groupby(t, by) ==
  Groups(t, Column(t, by), Sorted(Values(Column(t, by)) \ {Null}))

\* mutant: only the first polygon id of the group is kept
_row_first(_p, _g, pgid) ==
  <<_p, Column(_g, pgid)[1]>> \o unique(Column(_g, GEOM))

\* mutant: the polygon ids are joined as sorted(set(...))
_row_sorted(_p, _g, pgid) ==
  <<_p, join(SEP, Sorted({Column(_g, pgid)[k] : k \in 1..Len(_g.rows)}))>>
    \o unique(Column(_g, GEOM))

\* (_p, "-".join(_g[pgid]), *_g.geometry.unique())
_row(_p, _g, pgid) ==
  <<_p, join(SEP, Column(_g, pgid))>> \o unique(Column(_g, GEOM))

\* str.join raises TypeError on an item that is not a str
JoinRaises(_g, pgid) ==
  \E k \in 1..Len(_g.rows) : ~IsStr(Column(_g, pgid)[k])

\* geopandas.GeoDataFrame(columns=igdf.columns, index=pnts.index)
Shell(columns, index) ==
  [columns |-> columns,
   index |-> index,
   rows |-> [k \in 1..Len(index) |-> [j \in 1..Len(columns) |-> Null]]]

\* ndgdf.loc[:, keep_columns] = values: the values are laid over the rows
\* and the listed columns by position; the shapes must agree
LocAssign(t, keep_columns, values) ==
  IF \/ Len(values) # Len(t.index)
     \/ \E k \in 1..Len(values) : Len(values[k]) # Len(keep_columns)
  THEN [status |-> "ValueError", table |-> NoTable]
  ELSE [status |-> "ok",
        table |-> [t EXCEPT !.rows =
          [k \in 1..Len(t.rows) |->
             [j \in 1..Len(t.columns) |->
                IF HasCol(keep_columns, t.columns[j])
                THEN values[k][ColPos(keep_columns, t.columns[j])]
                ELSE t.rows[k][j]]]]]

\* lines 47-53: the shell table and its population from the groups
fold(t, index, ptid, pgid, keep_columns) ==
  LET groups == groupby(t, ptid)
  IN  IF \E i \in 1..Len(groups) : JoinRaises(groups[i].group, pgid)
      THEN [status |-> "TypeError", table |-> NoTable]
      ELSE LocAssign(Shell(t.columns, index), keep_columns,
                     [i \in 1..Len(groups) |->
                        _row(groups[i].key, groups[i].group, pgid)])

\* returns the caller's list as the call leaves it, the joined table and
\* the outcome: the folded table or the exception raised
nd_intersects(p, g, ptid, pgid, keep_columns) ==
  LET keep == KeepGeometry(keep_columns)
      r == do_sjoin(p, g, "intersects", ptid, pgid, keep, HOW, FILLNA)
  IN  [keep_columns |-> r.keep_columns,
       igdf |-> r.df3,
       ndgdf |-> fold(r.df3, RangeIndex(p), ptid, pgid, r.keep_columns)]

(* ----------------------------------------------------------------- state *)
PointIds == {<<"A">>, <<"B">>, Null}
PolygonIds == {<<"a">>, <<"b">>}
PointRecs == [point_id : PointIds, geometry : {Point(x) : x \in PointCoords}]
PolygonRecs == [polygon_id : PolygonIds, geometry : {<<0, 1>>, <<0, 2>>}]
KeepChoices == {<<PTID, PGID>>, <<PGID, PTID>>,
                <<PTID, PGID, GEOM>>, <<GEOM, PTID, PGID>>}

Init ==
  /\ pnts \in UNION {[1..n -> PointRecs] : n \in 1..MaxPoints}
  /\ pgons \in UNION {[1..n -> PolygonRecs] : n \in 0..MaxPolys}
  /\ KEEP_COLUMNS \in KeepChoices
  /\ df3 = NoTable
  /\ igdf = NoTable
  /\ ndgdf = NoResult
  /\ refold = NoResult
  /\ pc = "within"

\* demo: print(do_sjoin(points, polygons, "within", ...))
DoSjoinWithin ==
  /\ pc = "within"
  /\ LET r == do_sjoin(pnts, pgons, "within", PTID, PGID, KEEP_COLUMNS, HOW, FILLNA)
     IN  /\ KEEP_COLUMNS' = r.keep_columns
         /\ df3' = r.df3
  /\ pc' = "intersects"
  /\ UNCHANGED <<pnts, pgons, igdf, ndgdf, refold>>

\* demo: print(do_sjoin(points, polygons, "intersects", ...))
DoSjoinIntersects ==
  /\ pc = "intersects"
  /\ LET r == do_sjoin(pnts, pgons, "intersects", PTID, PGID, KEEP_COLUMNS, HOW, FILLNA)
     IN  /\ KEEP_COLUMNS' = r.keep_columns
         /\ df3' = r.df3
  /\ pc' = "nd"
  /\ UNCHANGED <<pnts, pgons, igdf, ndgdf, refold>>

\* demo: print(nd_intersects(points, polygons, PTID, PGID, KEEP_COLUMNS))
NdIntersects ==
  /\ pc = "nd"
  /\ LET r == nd_intersects(pnts, pgons, PTID, PGID, KEEP_COLUMNS)
     IN  /\ KEEP_COLUMNS' = r.keep_columns
         /\ igdf' = r.igdf
         /\ ndgdf' = r.ndgdf
  /\ pc' = "done"
  /\ UNCHANGED <<pnts, pgons, df3, refold>>

\* the group-by-and-fold of nd_intersects applied to the table it returned
Refold ==
  /\ pc = "done"
  /\ ndgdf.status = "ok"
  /\ refold' = fold(ndgdf.table, RangeIndex(pnts), PTID, PGID, KEEP_COLUMNS)
  /\ pc' = "refolded"
  /\ UNCHANGED <<pnts, pgons, KEEP_COLUMNS, df3, igdf, ndgdf>>

Next == DoSjoinWithin \/ DoSjoinIntersects \/ NdIntersects \/ Refold

Spec == Init /\ [][Next]_vars

(* ------------------------------------------------------------ properties *)
Called == ndgdf.status # "none"
Returned == ndgdf.status = "ok"
Out == ndgdf.table.rows
InputIds == {pnts[k].point_id : k \in 1..Len(pnts)}
UniqueIds ==
  /\ \A k \in 1..Len(pnts) : ~isna(pnts[k].point_id)
  /\ \A k, l \in 1..Len(pnts) : pnts[k].point_id = pnts[l].point_id => k = l
\* the polygon ids paired with point id p in the pair rows, in row order
PairedIds(p) ==
  LET ks == SelectSeq([k \in 1..Len(igdf.rows) |-> k],
                      LAMBDA k : Column(igdf, PTID)[k] = p)
  IN  [i \in 1..Len(ks) |-> Column(igdf, PGID)[ks[i]]]
\* the output rows of point id p: the rows whose first value is p
OutRowsOf(p) == {r \in 1..Len(Out) : Out[r][1] = p}
\* s.split(sep): the sep-separated components of the string s
RECURSIVE split(_, _)
split(s, sep) ==
  IF \A i \in 1..Len(s) : s[i] # sep THEN <<s>>
  ELSE LET k == CHOOSE i \in 1..Len(s) :
                  s[i] = sep /\ \A j \in 1..(i - 1) : s[j] # sep
       IN <<SubSeq(s, 1, k - 1)>> \o split(SubSeq(s, k + 1, Len(s)), sep)

Components(s) == split(s, SEP)
InSeq(x, q) == \E i \in 1..Len(q) : q[i] = x
\* the polygons point k intersects
Hits(k) == {j \in 1..Len(pgons) : Predicate("intersects", pnts[k], pgons[j])}

\* C1: with unique point ids the table nd_intersects returns has exactly one
\* row per point id: every input id is the point id of exactly one row,
\* whatever the number of polygons it matched, and the row count is the
\* number of distinct point ids of the pair rows; with the columns in the
\* order point id, polygon id, geometry the call does return a table.
C1_OneRowPerPoint ==
  /\ (Called /\ UniqueIds /\ KEEP_COLUMNS = <<PTID, PGID, GEOM>>) => Returned
  /\ (Returned /\ UniqueIds) =>
     /\ Len(Out) = Cardinality({Column(igdf, PTID)[k] : k \in 1..Len(igdf.rows)})
     /\ \A p \in InputIds : Cardinality(OutRowsOf(p)) = 1
     /\ \A r \in 1..Len(Out) : Out[r][1] \in InputIds

C1_Witness ==
  /\ Returned /\ UniqueIds /\ Len(pnts) = MaxPoints
  /\ Len(igdf.rows) > Len(pnts)
  /\ \E k \in 1..Len(pnts) : Hits(k) = {}

\* C2: every polygon id paired with a point in the pair rows is one of the
\* "-"-separated components of that point's merged string in the output.
C2_NoLoss ==
  Returned =>
    \A k \in 1..Len(igdf.rows) :
      \E r \in 1..Len(Out) :
        /\ Out[r][1] = Column(igdf, PTID)[k]
        /\ InSeq(Column(igdf, PGID)[k], Components(Out[r][2]))

C2_Witness ==
  /\ Returned
  /\ \E r \in 1..Len(Out) :
       /\ Len(PairedIds(Out[r][1])) = 2
       /\ PairedIds(Out[r][1])[1] # PairedIds(Out[r][1])[2]
       /\ InSeq(PairedIds(Out[r][1])[2], Components(Out[r][2]))

\* C3: the merged string lists a group's polygon ids in pair-row order,
\* never re-sorted, and a group of one row yields the id with no separator.
C3_EncounterOrder ==
  Returned =>
    \A r \in 1..Len(Out) :
      /\ Components(Out[r][2]) = PairedIds(Out[r][1])
      /\ Len(PairedIds(Out[r][1])) = 1 => Out[r][2] = PairedIds(Out[r][1])[1]

C3_Witness ==
  /\ Returned
  /\ \E r \in 1..Len(Out) :
       /\ PairedIds(Out[r][1]) = << <<"b">>, <<"a">> >>
       /\ Out[r][2] = <<"b", "-", "a">>
  /\ \E r \in 1..Len(Out) :
       /\ Len(PairedIds(Out[r][1])) = 1
       /\ Out[r][2] = <<"a">>

\* C4: every polygon id appears at most once among the components of a
\* merged string, repeats in the group being collapsed.
C4_RepeatsCollapsed ==
  Returned =>
    \A r \in 1..Len(Out) :
      \A i, j \in 1..Len(Components(Out[r][2])) :
        Components(Out[r][2])[i] = Components(Out[r][2])[j] => i = j

\* the rows of table t joined from point k, as positions
RowsFrom(t, k) == {i \in 1..Len(t.rows) : t.index[i] = k - 1}
\* the polygon ids of the polygons in set H, in right order
IdsOfHits(H) ==
  LET js == SelectSeq([j \in 1..Len(pgons) |-> j], LAMBDA j : j \in H)
  IN  [i \in 1..Len(js) |-> pgons[js[i]].polygon_id]
CellsFrom(t, k) ==
  LET ks == SelectSeq([i \in 1..Len(t.rows) |-> i], LAMBDA i : i \in RowsFrom(t, k))
  IN  [i \in 1..Len(ks) |-> Column(t, PGID)[ks[i]]]

\* the polygons point k lies strictly within
Within(k) == {j \in 1..Len(pgons) : Predicate("within", pnts[k], pgons[j])}

\* C5: under the left join a point matching no polygon is in the pair rows
\* exactly once with the sentinel as its polygon id, the non-null polygon
\* ids are left as they are, and nd_intersects yields for that point the
\* row (point id, sentinel, the point's own geometry).
C5_SentinelPropagation ==
  (Called \/ pc = "intersects") =>
    \A k \in 1..Len(pnts) :
      /\ (Called /\ Hits(k) = {}) =>
           /\ Cardinality(RowsFrom(igdf, k)) = 1
           /\ CellsFrom(igdf, k) = <<FILLNA>>
           /\ (Returned /\ UniqueIds) =>
                \E r \in 1..Len(Out) :
                  Out[r] = <<pnts[k].point_id, FILLNA, pnts[k].geometry>>
      /\ (Called /\ Hits(k) # {}) => CellsFrom(igdf, k) = IdsOfHits(Hits(k))
      /\ pc = "intersects" =>
           CellsFrom(df3, k) = IF Within(k) = {} THEN <<FILLNA>>
                               ELSE IdsOfHits(Within(k))

C5_Witness ==
  /\ Returned /\ UniqueIds
  /\ \E k \in 1..Len(pnts) :
       /\ Hits(k) = {}
       /\ \E r \in 1..Len(Out) :
            Out[r] = <<pnts[k].point_id, FILLNA, pnts[k].geometry>>
  /\ \E k \in 1..Len(pnts) : Hits(k) # {}

\* C6: the k-th output row is the aggregated row of the k-th input point,
\* in whatever order the point ids occur in the point collection.
C6_InputOrder ==
  Returned => \A k \in 1..Len(Out) : Out[k][1] = pnts[k].point_id

\* C7: no call changes the point collection, the polygon collection or the
\* caller's keep_columns list.
C7_NoSideEffects ==
  [][pnts' = pnts /\ pgons' = pgons /\ KEEP_COLUMNS' = KEEP_COLUMNS]_vars

\* C8: the group-by-and-fold applied to the table the fold produced returns
\* that table unchanged.
C8_FoldIdempotent ==
  pc = "refolded" => refold = ndgdf

\* C9: the output columns are point id, merged polygon id, geometry in that
\* order, and each row holds the point's id, its merged string and its
\* geometry under those names.
C9_ColumnMeaning ==
  Returned =>
    /\ ndgdf.table.columns = <<PTID, PGID, GEOM>>
    /\ \A r \in 1..Len(Out) :
         /\ Column(ndgdf.table, PTID)[r] \in InputIds
         /\ Column(ndgdf.table, PGID)[r]
              = join(SEP, PairedIds(Column(ndgdf.table, PTID)[r]))
         /\ IsGeom(Column(ndgdf.table, GEOM)[r])

\* C10: a null point id makes nd_intersects fail with an error; no table
\* is returned.
C10_NullKeyFails ==
  (Called /\ \E k \in 1..Len(pnts) : isna(pnts[k].point_id)) =>
     ndgdf.status = "ValueError"

C10_Witness ==
  /\ ndgdf.status = "ValueError"
  /\ Len(pnts) = MaxPoints
  /\ isna(pnts[1].point_id)
  /\ ~isna(pnts[Len(pnts)].point_id)
====
